---- MODULE Spec2Model ----
(***************************************************************************)
(* Job lifecycle of the imagegen application:                              *)
(*   - style jobs: submit-style-job inserts a QUEUED row, invocations of   *)
(*     process-style-jobs claim and process it, the Brand Style Duplicator *)
(*     page polls the row (pollJobStatus);                                 *)
(*   - lipsync jobs: submit-lipsync-job creates the row and queues the     *)
(*     request at Fal AI, handle-lipsync-webhook applies the notification. *)
(* Every await of a handler is a point where other handlers interleave,    *)
(* so each handler is a small process whose steps are the actions below.   *)
(***************************************************************************)
EXTENDS Integers, Sequences, FiniteSets, TLC

\* ---------------------------------------------------------------- bounds
MaxJobs == 2          \* style_jobs rows that may be inserted
MaxInvocations == 2   \* invocations of process-style-jobs
MaxImages == 2        \* images the external image API returns at most
MaxPollCalls == 62    \* checkStatus calls the model follows
MaxLipsyncJobs == 1   \* lipsync_jobs rows that may be inserted
MaxWebhooks == 2      \* notifications delivered to handle-lipsync-webhook
MaxLoads == 2         \* queries a mounted HistoryInfinite sends

\* ------------------------------------------------------- program constants
maxAttempts == 60
MAX_FILE_SIZE_MB == 500
MAX_FILE_SIZE_BYTES == MAX_FILE_SIZE_MB * 1024 * 1024
PAGE_SIZE == 8

NULL == "null"
Users == {"u1", "u2"}
JobIdTable == <<"j1", "j2", "j3", "j4">>
ExecIdTable == <<"e1", "e2", "e3", "e4">>
NInputs == {0, 5}
InspCounts == {0, 1}   \* lengths of inspirationImages in a request

VARIABLES
  style_jobs,        \* table style_jobs: a set of rows
  generated_images,  \* table generated_images: a set of rows
  storage,           \* bucket generated-images: the set of result paths
  clock,             \* the database/server time, one tick per write
  inv,               \* the invocations of process-style-jobs
  openaiCalls,       \* requests received by the external image API
  pendingTriggers,   \* worker triggers sent by submit-style-job, not yet run
  submitResp,        \* the last response of submit-style-job
  isGenerating,      \* BrandStyleDuplicator state
  poll,              \* the pollJobStatus loop of the page
  lipsync_jobs,      \* table lipsync_jobs: a set of rows
  falQueue,          \* requests accepted by the Fal AI queue
  lsub,              \* the running submit-lipsync-job handler
  wh,                \* the running handle-lipsync-webhook handler
  webhooks,          \* notifications delivered so far
  mounted,           \* whether the BrandStyleDuplicator page is mounted
  orphans,           \* job ids polled by loops of unmounted page instances
  lip,               \* LipsyncPage state and its realtime channel
  lastRead,          \* the last job read of a browser session and its result
  history            \* HistoryInfinite state and its running loadImages call

styleVars == <<style_jobs, generated_images, storage, clock, inv, openaiCalls,
               pendingTriggers, submitResp>>
clientVars == <<isGenerating, poll, mounted, orphans, lip, lastRead, history>>
lipsyncVars == <<lipsync_jobs, falQueue, lsub, wh, webhooks>>
vars == <<style_jobs, generated_images, storage, clock, inv, openaiCalls,
          pendingTriggers, submitResp, isGenerating, poll,
          lipsync_jobs, falQueue, lsub, wh, webhooks,
          mounted, orphans, lip, lastRead, history>>

Invocations == 1..MaxInvocations

NoJob == [id |-> NULL]

IdleInvocation ==
  [pc |-> "idle", job |-> NoJob, execId |-> NULL, imgs |-> 0, i |-> 0,
   err |-> NULL, status |-> 0, numVariations |-> 0]

NoResponse == [status |-> 0, job_id |-> NULL, error |-> NULL]

IdlePoll == [pc |-> "none", jobId |-> NULL, attempt |-> 0, result |-> NULL]

LipsyncUsers == {"u1"}
LipsyncIdTable == <<"l1", "l2", "l3", "l4">>
ReqIdTable == <<"abc", "def", "ghi", "jkl">>

IdleSubmit == [pc |-> "idle", job_id |-> NULL, request_id |-> NULL, success |-> NULL]

NoBody == [request_id |-> NULL, status |-> NULL, payload |-> NULL, error |-> NULL]

IdleWebhook ==
  [pc |-> "idle", job_id |-> NULL, body |-> NoBody, resp |-> 0, dbError |-> FALSE]

\* A file input with no file chosen, and the page before any interaction.
NoFile == [present |-> FALSE, type |-> <<>>, size |-> 0]

NoSubmission == [videoFile |-> NoFile, audioFile |-> NoFile]

IdlePage ==
  [pc |-> "idle", videoFile |-> NoFile, audioFile |-> NoFile,
   isSubmitting |-> FALSE, isProcessing |-> FALSE, currentJobId |-> NULL,
   jobStatus |-> NULL, outputUrl |-> NULL, errorMessage |-> NULL,
   channel |-> NULL, subscribedAt |-> 0, sent |-> NoSubmission,
   warned |-> FALSE]

NoRead == [by |-> NULL, table |-> NULL, filter |-> NULL, rows |-> {}]

\* The cursor of HistoryInfinite before a page was loaded (null).
NoCursor == 0

\* HistoryInfinite before it mounts: the initial values of its useState
\* calls. query is the query of the running loadImages call, queries the
\* queries sent since the mount and page the rows of the last answer.
NoHistory ==
  [pc |-> "unmounted", items |-> <<>>, loading |-> TRUE, hasMore |-> TRUE,
   cursor |-> NoCursor, error |-> NULL, query |-> NoCursor, queries |-> 0,
   page |-> <<>>]

Init ==
  /\ style_jobs = {}
  /\ generated_images = {}
  /\ storage = {}
  /\ clock = 1
  /\ inv = [k \in Invocations |-> IdleInvocation]
  /\ openaiCalls = [id \in {} |-> 0]
  /\ pendingTriggers = 0
  /\ submitResp = NoResponse
  /\ isGenerating = FALSE
  /\ poll = IdlePoll
  /\ lipsync_jobs = {}
  /\ falQueue = {}
  /\ lsub = IdleSubmit
  /\ wh = IdleWebhook
  /\ webhooks = 0
  /\ mounted = TRUE
  /\ orphans = <<>>
  /\ lip = IdlePage
  /\ lastRead = NoRead
  /\ history = NoHistory

\* ------------------------------------------------------ the row store
\* UPDATE style_jobs SET <fields of patch> WHERE id = id
UpdateWhereId(table, id, patch) ==
  { IF r.id = id
      THEN [f \in DOMAIN r |-> IF f \in DOMAIN patch THEN patch[f] ELSE r[f]]
      ELSE r : r \in table }

RowOf(table, id) == CHOOSE r \in table : r.id = id

HasRow(table, id) == \E r \in table : r.id = id

Min(a, b) == IF a < b THEN a ELSE b
Max(a, b) == IF a > b THEN a ELSE b

\* --------------------------------------------------- submit-style-job
\* The n of a request body after destructuring: 1 when the body has none.
BodyN(body) == IF body.hasN THEN body.n ELSE 1

\* ClampN with the limit of the worker and of the page's slider.
ClampNUpTo10(n) == Min(10, Max(1, n))

\* n: Math.min(4, Math.max(1, Number(n)))
ClampN(n) == Min(4, Max(1, n))

\* SubmitStyleJobHandler creating the job record before the inspiration
\* images are staged.
SubmitStyleJobHandlerInsertFirst(uid, hasPrompt, n, insp, inspOutcome, insertOk, triggerOk) ==
  LET id == JobIdTable[Cardinality(style_jobs) + 1]
      row == [id |-> id, user_id |-> uid, prompt |-> "prompt",
              insp_paths |-> insp, n |-> ClampN(n), size |-> "1024x1024",
              status |-> "QUEUED", exec_id |-> NULL, error_message |-> NULL,
              created_at |-> clock, updated_at |-> clock]
      inserted == uid # "anonymous" /\ hasPrompt /\ insertOk
      rejected == ~inserted \/ (insp > 0 /\ inspOutcome # "ok")
  IN /\ style_jobs' = IF inserted THEN style_jobs \cup {row} ELSE style_jobs
     /\ clock' = IF inserted THEN clock + 1 ELSE clock
     /\ pendingTriggers' = IF ~rejected /\ triggerOk THEN pendingTriggers + 1
                                                     ELSE pendingTriggers
     /\ submitResp' = IF rejected
                        THEN [status |-> 500, job_id |-> NULL,
                              error |-> "Failed to upload inspiration image"]
                        ELSE [status |-> 200, job_id |-> id, error |-> NULL]

\* SubmitStyleJobHandler awaiting the worker trigger and failing with it.
SubmitStyleJobHandlerTriggerFatal(uid, hasPrompt, n, insp, inspOutcome, insertOk, triggerOk) ==
  LET id == JobIdTable[Cardinality(style_jobs) + 1]
      row == [id |-> id, user_id |-> uid, prompt |-> "prompt",
              insp_paths |-> insp, n |-> ClampN(n), size |-> "1024x1024",
              status |-> "QUEUED", exec_id |-> NULL, error_message |-> NULL,
              created_at |-> clock, updated_at |-> clock]
      inserted == /\ uid # "anonymous" /\ hasPrompt /\ insertOk
                  /\ ~(insp > 0 /\ inspOutcome # "ok")
  IN /\ style_jobs' = IF inserted THEN style_jobs \cup {row} ELSE style_jobs
     /\ clock' = IF inserted THEN clock + 1 ELSE clock
     /\ pendingTriggers' = IF inserted /\ triggerOk THEN pendingTriggers + 1
                                                     ELSE pendingTriggers
     /\ submitResp' = IF inserted /\ triggerOk
                        THEN [status |-> 200, job_id |-> id, error |-> NULL]
                        ELSE [status |-> 500, job_id |-> NULL,
                              error |-> "Background trigger failed"]

\* The handler of submit-style-job for one request: the response and the
\* effect on the store. uid is what the bearer token decodes to
\* ("anonymous" when there is none), insp the number of inspiration images,
\* inspOutcome what staging them meets, insertOk whether the insert works,
\* triggerOk whether the fire-and-forget worker trigger reaches the worker.
SubmitStyleJobHandler(uid, hasPrompt, n, insp, inspOutcome, insertOk, triggerOk) ==
  IF uid = "anonymous"
    THEN /\ submitResp' = [status |-> 500, job_id |-> NULL,
                           error |-> "Authentication required"]
         /\ UNCHANGED <<style_jobs, clock, pendingTriggers>>
  ELSE IF ~hasPrompt
    THEN /\ submitResp' = [status |-> 500, job_id |-> NULL,
                           error |-> "Missing required field: prompt."]
         /\ UNCHANGED <<style_jobs, clock, pendingTriggers>>
  ELSE IF insp > 0 /\ inspOutcome = "badBase64"
    THEN /\ submitResp' = [status |-> 500, job_id |-> NULL,
                           error |-> "Invalid base64 string for inspiration image"]
         /\ UNCHANGED <<style_jobs, clock, pendingTriggers>>
  ELSE IF insp > 0 /\ inspOutcome = "uploadErr"
    THEN /\ submitResp' = [status |-> 500, job_id |-> NULL,
                           error |-> "Failed to upload inspiration image"]
         /\ UNCHANGED <<style_jobs, clock, pendingTriggers>>
  ELSE IF ~insertOk
    THEN /\ submitResp' = [status |-> 500, job_id |-> NULL,
                           error |-> "Failed to create job"]
         /\ UNCHANGED <<style_jobs, clock, pendingTriggers>>
  ELSE LET id == JobIdTable[Cardinality(style_jobs) + 1]
           row == [id |-> id, user_id |-> uid, prompt |-> "prompt",
                   insp_paths |-> insp, n |-> ClampN(n), size |-> "1024x1024",
                   status |-> "QUEUED", exec_id |-> NULL,
                   error_message |-> NULL,
                   created_at |-> clock, updated_at |-> clock]
       IN /\ style_jobs' = style_jobs \cup {row}
          /\ clock' = clock + 1
          /\ pendingTriggers' = IF triggerOk THEN pendingTriggers + 1
                                             ELSE pendingTriggers
          /\ submitResp' = [status |-> 200, job_id |-> id, error |-> NULL]

SubmitStyleJob ==
  /\ Cardinality(style_jobs) < MaxJobs
  /\ \E uid \in Users \cup {"anonymous"}, hasPrompt \in BOOLEAN, n \in NInputs,
        insp \in InspCounts, inspOutcome \in {"ok", "badBase64", "uploadErr"},
        insertOk \in BOOLEAN, triggerOk \in BOOLEAN :
       SubmitStyleJobHandler(uid, hasPrompt, n, insp, inspOutcome, insertOk, triggerOk)
  /\ UNCHANGED <<generated_images, storage, inv, openaiCalls>>
  /\ UNCHANGED clientVars
  /\ UNCHANGED lipsyncVars

\* SubmitResponseBody wrapping every answer in a success envelope.
SubmitResponseBodyEnvelope(resp) ==
  IF resp.status = 200
    THEN [success |-> TRUE, jobId |-> resp.job_id]
    ELSE [success |-> FALSE, error |-> resp.error]

\* The JSON body of a response of submit-style-job: the object of the
\* success return, and the object of the catch block.
SubmitResponseBody(resp) ==
  IF resp.status = 200
    THEN [job_id |-> resp.job_id, message |-> "Job submitted successfully",
          status |-> "QUEUED"]
    ELSE [error |-> resp.error]

\* -------------------------------------------------- process-style-jobs
Step(k, rec) == inv' = [inv EXCEPT ![k] = rec]

CanStart(k) ==
  /\ inv[k].pc = "idle"
  /\ IF k = 1 THEN TRUE ELSE inv[k - 1].pc # "idle"

\* An invocation requested by the trigger of submit-style-job.
InvokeTriggered(k) ==
  /\ CanStart(k)
  /\ pendingTriggers > 0
  /\ pendingTriggers' = pendingTriggers - 1
  /\ Step(k, [inv[k] EXCEPT !.pc = "select"])
  /\ UNCHANGED <<style_jobs, generated_images, storage, clock, openaiCalls, submitResp>>
  /\ UNCHANGED clientVars
  /\ UNCHANGED lipsyncVars

\* InvokeScheduled without a scheduler: invocations come from triggers only.
InvokeScheduledByTriggerOnly(k) ==
  /\ CanStart(k)
  /\ pendingTriggers > 0
  /\ pendingTriggers' = pendingTriggers - 1
  /\ Step(k, [inv[k] EXCEPT !.pc = "select"])
  /\ UNCHANGED <<style_jobs, generated_images, storage, clock, openaiCalls, submitResp>>
  /\ UNCHANGED clientVars
  /\ UNCHANGED lipsyncVars

\* An invocation requested by a scheduler.
InvokeScheduled(k) ==
  /\ CanStart(k)
  /\ Step(k, [inv[k] EXCEPT !.pc = "select"])
  /\ UNCHANGED <<style_jobs, generated_images, storage, clock, openaiCalls,
                 pendingTriggers, submitResp>>
  /\ UNCHANGED clientVars
  /\ UNCHANGED lipsyncVars

\* OldestQueued with the order reversed: the most recent QUEUED row.
NewestQueued(table) ==
  LET queued == {r \in table : r.status = "QUEUED"}
  IN IF queued = {} THEN NoJob
     ELSE CHOOSE r \in queued : \A q \in queued : r.created_at >= q.created_at

\* .eq('status','QUEUED').order('created_at').limit(1).maybeSingle()
OldestQueued(table) ==
  LET queued == {r \in table : r.status = "QUEUED"}
  IN IF queued = {} THEN NoJob
     ELSE CHOOSE r \in queued : \A q \in queued : r.created_at <= q.created_at

SelectJob(k) ==
  /\ inv[k].pc = "select"
  /\ \E jobError \in BOOLEAN :
       IF jobError
         THEN Step(k, [inv[k] EXCEPT !.pc = "done", !.status = 500,
                                     !.err = "Job fetch error"])
         ELSE LET job == OldestQueued(style_jobs)
              IN IF job.id = NULL
                   THEN Step(k, [inv[k] EXCEPT !.pc = "done", !.status = 200])
                   ELSE Step(k, [inv[k] EXCEPT !.pc = "mark", !.job = job])
  /\ UNCHANGED <<style_jobs, generated_images, storage, clock, openaiCalls,
                 pendingTriggers, submitResp>>
  /\ UNCHANGED clientVars
  /\ UNCHANGED lipsyncVars

\* update({status:'PROCESSING', updated_at}).eq('id', job.id)
MarkProcessing(k) ==
  /\ inv[k].pc = "mark"
  /\ style_jobs' = UpdateWhereId(style_jobs, inv[k].job.id,
                     [status |-> "PROCESSING", updated_at |-> clock])
  /\ clock' = clock + 1
  /\ Step(k, [inv[k] EXCEPT !.pc = "load"])
  /\ UNCHANGED <<generated_images, storage, openaiCalls, pendingTriggers, submitResp>>
  /\ UNCHANGED clientVars
  /\ UNCHANGED lipsyncVars

Throw(k, message) ==
  Step(k, [inv[k] EXCEPT !.pc = "catch", !.err = message, !.imgs = 0, !.i = 0])

\* STEP 1 and the Blob conversion: download and convert the inspiration images
LoadInspiration(k) ==
  /\ inv[k].pc = "load"
  /\ IF inv[k].job.insp_paths > 0
       THEN \E outcome \in {"ok", "downloadErr", "blobErr"} :
              CASE outcome = "ok" -> Step(k, [inv[k] EXCEPT !.pc = "openai"])
                [] outcome = "downloadErr" ->
                     Throw(k, "Failed to download inspiration image")
                [] outcome = "blobErr" ->
                     Throw(k, "Failed to process inspiration image")
       ELSE Step(k, [inv[k] EXCEPT !.pc = "openai"])
  /\ UNCHANGED <<style_jobs, generated_images, storage, clock, openaiCalls,
                 pendingTriggers, submitResp>>
  /\ UNCHANGED clientVars
  /\ UNCHANGED lipsyncVars

\* The count of requests per job id, after one more for id.
Received(calls, id) ==
  [j \in DOMAIN calls \cup {id} |->
     IF j \in DOMAIN calls THEN calls[j] + (IF j = id THEN 1 ELSE 0) ELSE 1]

CallsFor(id) == IF id \in DOMAIN openaiCalls THEN openaiCalls[id] ELSE 0

\* numVariations = Math.max(1, Math.min(10, Number(job.n) || 1))
NumVariations(n) == Max(1, Min(10, IF n = 0 THEN 1 ELSE n))

\* STEP 2: the request to the external image API, carrying numVariations
\* as its n, and its response
CallOpenAI(k) ==
  /\ inv[k].pc = "openai"
  /\ openaiCalls' = Received(openaiCalls, inv[k].job.id)
  /\ \E outcome \in {"ok", "notOk", "empty"}, m \in 1..MaxImages :
       LET w == [inv[k] EXCEPT !.numVariations = NumVariations(inv[k].job.n)]
       IN CASE outcome = "ok" ->
                 Step(k, [w EXCEPT !.pc = "upload", !.imgs = m, !.i = 0,
                                   !.execId = ExecIdTable[k]])
            [] outcome = "notOk" ->
                 Step(k, [w EXCEPT !.pc = "catch", !.imgs = 0, !.i = 0,
                                   !.err = "OpenAI API request failed"])
            [] outcome = "empty" ->
                 Step(k, [w EXCEPT !.pc = "catch", !.imgs = 0, !.i = 0,
                            !.err = "OpenAI response did not contain valid image data"])
  /\ UNCHANGED <<style_jobs, generated_images, storage, clock, pendingTriggers, submitResp>>
  /\ UNCHANGED clientVars
  /\ UNCHANGED lipsyncVars

\* STEP 3: one iteration of the upload loop. The created_at the table
\* gives a new row is its rank among the inserts of the table; the page
\* reading the table only orders and compares these values.
UploadImage(k) ==
  /\ inv[k].pc = "upload"
  /\ LET w == inv[k]
         filePath == <<w.job.user_id, w.execId, w.i>>
         row == [user_id |-> w.job.user_id, path |-> filePath,
                 exec_id |-> w.execId,
                 created_at |-> Cardinality(generated_images) + 1]
     IN \E outcome \in {"ok", "uploadErr", "signErr"}, insertOk \in BOOLEAN :
          CASE outcome = "uploadErr" ->
                 /\ Throw(k, "Upload failed")
                 /\ UNCHANGED <<storage, generated_images>>
            [] outcome = "signErr" ->
                 /\ storage' = storage \cup {filePath}
                 /\ Throw(k, "Failed to create signed URL")
                 /\ UNCHANGED generated_images
            [] outcome = "ok" ->
                 /\ storage' = storage \cup {filePath}
                 /\ generated_images' = IF insertOk THEN generated_images \cup {row}
                                                    ELSE generated_images
                 /\ Step(k, [w EXCEPT !.i = w.i + 1,
                                      !.pc = IF w.i + 1 < w.imgs THEN "upload"
                                                                 ELSE "complete"])
  /\ UNCHANGED <<style_jobs, clock, openaiCalls, pendingTriggers, submitResp>>
  /\ UNCHANGED clientVars
  /\ UNCHANGED lipsyncVars

\* MarkCompleted also storing the number of images produced in n.
MarkCompletedStoresCount(k) ==
  /\ inv[k].pc = "complete"
  /\ style_jobs' = UpdateWhereId(style_jobs, inv[k].job.id,
                     [status |-> "COMPLETED", exec_id |-> inv[k].execId,
                      n |-> inv[k].imgs, updated_at |-> clock])
  /\ clock' = clock + 1
  /\ Step(k, [inv[k] EXCEPT !.pc = "done", !.status = 200, !.imgs = 0, !.i = 0])
  /\ UNCHANGED <<generated_images, storage, openaiCalls, pendingTriggers, submitResp>>
  /\ UNCHANGED clientVars
  /\ UNCHANGED lipsyncVars

\* STEP 4: update({status:'COMPLETED', exec_id, updated_at}).eq('id', job.id)
MarkCompleted(k) ==
  /\ inv[k].pc = "complete"
  /\ style_jobs' = UpdateWhereId(style_jobs, inv[k].job.id,
                     [status |-> "COMPLETED", exec_id |-> inv[k].execId,
                      updated_at |-> clock])
  /\ clock' = clock + 1
  /\ Step(k, [inv[k] EXCEPT !.pc = "done", !.status = 200, !.imgs = 0, !.i = 0])
  /\ UNCHANGED <<generated_images, storage, openaiCalls, pendingTriggers, submitResp>>
  /\ UNCHANGED clientVars
  /\ UNCHANGED lipsyncVars

\* Whether the name supabaseAdmin resolves inside the catch block. It is a
\* const of the try block, so it does not: using it throws a ReferenceError.
AdminInCatchScope == FALSE

\* The catch block: the FAILED update is attempted through supabaseAdmin
\* inside an inner try whose catch only logs; then the 500 response.
CatchError(k) ==
  /\ inv[k].pc = "catch"
  /\ IF inv[k].job.id # NULL /\ AdminInCatchScope
       THEN /\ style_jobs' = UpdateWhereId(style_jobs, inv[k].job.id,
                               [status |-> "FAILED",
                                error_message |-> inv[k].err,
                                updated_at |-> clock])
            /\ clock' = clock + 1
       ELSE UNCHANGED <<style_jobs, clock>>
  /\ Step(k, [inv[k] EXCEPT !.pc = "done", !.status = 500])
  /\ UNCHANGED <<generated_images, storage, openaiCalls, pendingTriggers, submitResp>>
  /\ UNCHANGED clientVars
  /\ UNCHANGED lipsyncVars

Worker(k) ==
  \/ InvokeTriggered(k)
  \/ InvokeScheduled(k)
  \/ SelectJob(k)
  \/ MarkProcessing(k)
  \/ LoadInspiration(k)
  \/ CallOpenAI(k)
  \/ UploadImage(k)
  \/ MarkCompleted(k)
  \/ CatchError(k)

\* The JSON body of the response of a finished invocation w: the error
\* object of the job fetch error and of the catch block, the message for an
\* empty queue, and the summary of a processed job (images: the signed
\* paths of the run).
WorkerResponseBody(w) ==
  IF w.status = 500 THEN [error |-> w.err]
  ELSE IF w.job.id = NULL THEN [message |-> "No jobs to process"]
  ELSE [message |-> "Job processed successfully", job_id |-> w.job.id,
        exec_id |-> w.execId,
        images |-> {p \in storage : p[2] = w.execId}]

\* The handler has returned its response; serve takes the next request of a
\* recurring caller with a fresh handler.
NextInvocation(k) ==
  /\ inv[k].pc = "done"
  /\ Step(k, IdleInvocation)
  /\ UNCHANGED <<style_jobs, generated_images, storage, clock, openaiCalls,
                 pendingTriggers, submitResp>>
  /\ UNCHANGED clientVars
  /\ UNCHANGED lipsyncVars

\* ------------------------------------------ BrandStyleDuplicator (client)
\* HandleGenerate with a button that stays enabled while isGenerating.
HandleGenerateAlwaysEnabled ==
  /\ mounted
  /\ Cardinality(style_jobs) < MaxJobs
  /\ \E uid \in {"u1", "anonymous"}, insp \in InspCounts \ {0},
        inspOutcome \in {"ok", "uploadErr"}, triggerOk \in BOOLEAN :
       SubmitStyleJobHandler(uid, TRUE, 5, insp, inspOutcome, TRUE, triggerOk)
  /\ IF submitResp'.status = 200
       THEN /\ isGenerating' = TRUE
            /\ poll' = [pc |-> "polling", jobId |-> submitResp'.job_id,
                        attempt |-> 0, result |-> NULL]
            /\ orphans' = IF poll.pc = "polling" THEN Append(orphans, poll.jobId)
                                                 ELSE orphans
       ELSE /\ isGenerating' = FALSE
            /\ UNCHANGED <<poll, orphans>>
  /\ UNCHANGED <<generated_images, storage, inv, openaiCalls>>
  /\ UNCHANGED <<mounted, lip, lastRead, history>>
  /\ UNCHANGED lipsyncVars

\* handleGenerate: the button is enabled only while isGenerating is false;
\* the page submits the job and, on a 200 response carrying a job id, starts
\* pollJobStatus for it. Every other outcome resets isGenerating.
HandleGenerate ==
  /\ mounted
  /\ ~isGenerating
  /\ Cardinality(style_jobs) < MaxJobs
  /\ \E uid \in {"u1", "anonymous"}, insp \in InspCounts \ {0},
        inspOutcome \in {"ok", "uploadErr"}, triggerOk \in BOOLEAN :
       SubmitStyleJobHandler(uid, TRUE, 5, insp, inspOutcome, TRUE, triggerOk)
  /\ IF submitResp'.status = 200
       THEN /\ isGenerating' = TRUE
            /\ poll' = [pc |-> "polling", jobId |-> submitResp'.job_id,
                        attempt |-> 0, result |-> NULL]
       ELSE /\ isGenerating' = FALSE
            /\ UNCHANGED poll
  /\ UNCHANGED <<generated_images, storage, inv, openaiCalls>>
  /\ UNCHANGED <<mounted, orphans, lip, lastRead, history>>
  /\ UNCHANGED lipsyncVars

PollOutcomes == {"row", "error", "nodata", "throw"}

\* What one call of checkStatus shows to the user (the toast), NULL when it
\* shows nothing. attempt is the counter after its increment; row is the
\* style_jobs row the query returned.
CheckStatusResult(outcome, attempt, row, images) ==
  CASE outcome = "throw" -> NULL
    [] outcome = "error" -> NULL
    [] outcome = "nodata" -> NULL
    [] outcome = "row" ->
         IF row.status = "COMPLETED"
           THEN IF row.exec_id = NULL THEN "Generation Complete"
                ELSE IF images = {} THEN "No generated images found"
                ELSE "Images Generated"
         ELSE IF row.status = "FAILED" THEN "Generation Failed"
         ELSE IF attempt >= maxAttempts THEN "Status Check Timeout"
         ELSE NULL

\* The value checkStatus returns: whether the loop stops.
CheckStatus(outcome, attempt, row) ==
  CASE outcome = "throw" -> attempt >= maxAttempts
    [] outcome = "error" -> FALSE
    [] outcome = "nodata" -> FALSE
    [] outcome = "row" ->
         \/ row.status = "COMPLETED"
         \/ row.status = "FAILED"
         \/ attempt >= maxAttempts

\* PollIteration with a timeout branch that marks the polled job FAILED.
PollIterationMarksFailed(outcome) ==
  /\ poll.pc = "polling"
  /\ poll.attempt < MaxPollCalls
  /\ LET attempt == poll.attempt + 1
         row == RowOf(style_jobs, poll.jobId)
         images == {g \in generated_images : g.exec_id = row.exec_id}
         shouldStop == CheckStatus(outcome, attempt, row)
         result == CheckStatusResult(outcome, attempt, row, images)
     IN /\ poll' = [poll EXCEPT !.attempt = attempt,
                      !.pc = IF shouldStop THEN "stopped" ELSE "polling",
                      !.result = result]
        /\ isGenerating' = IF shouldStop THEN FALSE ELSE isGenerating
        /\ style_jobs' = IF result = "Status Check Timeout"
                           THEN UpdateWhereId(style_jobs, poll.jobId,
                                  [status |-> "FAILED",
                                   error_message |-> "Status Check Timeout"])
                           ELSE style_jobs
  /\ UNCHANGED <<generated_images, storage, clock, inv, openaiCalls,
                 pendingTriggers, submitResp>>
  /\ UNCHANGED <<mounted, orphans, lip, lastRead, history>>
  /\ UNCHANGED lipsyncVars

\* One iteration of the while loop of pollJobStatus: a call of checkStatus,
\* then either the exit (setIsGenerating(false); break) or the next sleep.
PollIteration(outcome) ==
  /\ poll.pc = "polling"
  /\ poll.attempt < MaxPollCalls
  /\ LET attempt == poll.attempt + 1
         row == RowOf(style_jobs, poll.jobId)
         images == {g \in generated_images : g.exec_id = row.exec_id}
         shouldStop == CheckStatus(outcome, attempt, row)
     IN /\ poll' = [poll EXCEPT !.attempt = attempt,
                      !.pc = IF shouldStop THEN "stopped" ELSE "polling",
                      !.result = CheckStatusResult(outcome, attempt, row, images)]
        /\ isGenerating' = IF shouldStop THEN FALSE ELSE isGenerating
  /\ UNCHANGED styleVars
  /\ UNCHANGED <<mounted, orphans, lip, lastRead, history>>
  /\ UNCHANGED lipsyncVars

\* The user navigates away: the component unmounts. The page registers no
\* cleanup for pollJobStatus, whose while loop keeps running.
Unmount ==
  /\ mounted
  /\ mounted' = FALSE
  /\ UNCHANGED <<isGenerating, poll, orphans, lip, lastRead, history>>
  /\ UNCHANGED styleVars
  /\ UNCHANGED lipsyncVars

\* The user comes back: a new component instance with useState(false) for
\* isGenerating. A loop the former instance started is not known to it.
Mount ==
  /\ ~mounted
  /\ mounted' = TRUE
  /\ isGenerating' = FALSE
  /\ IF poll.pc = "polling"
       THEN /\ orphans' = Append(orphans, poll.jobId)
            /\ poll' = IdlePoll
       ELSE UNCHANGED <<orphans, poll>>
  /\ UNCHANGED <<lip, lastRead, history>>
  /\ UNCHANGED styleVars
  /\ UNCHANGED lipsyncVars

\* ------------------------------------------------- submit-lipsync-job
styleAndClient == <<style_jobs, generated_images, storage, inv, openaiCalls,
                    pendingTriggers, submitResp, isGenerating, poll,
                    mounted, orphans, lip, lastRead, history>>

\* Authentication, file validation and the uploads to Fal storage, then the
\* initial record (status UPLOADING, no fal_request_id yet).
LipsyncCreateRecord ==
  /\ lsub.pc = "idle"
  /\ Cardinality(lipsync_jobs) < MaxLipsyncJobs
  /\ \E uid \in LipsyncUsers, accepted \in BOOLEAN :
       IF accepted
         THEN LET id == LipsyncIdTable[Cardinality(lipsync_jobs) + 1]
                  row == [id |-> id, user_id |-> uid, fal_request_id |-> NULL,
                          status |-> "UPLOADING", output_video_url |-> NULL,
                          error_message |-> NULL,
                          created_at |-> clock, updated_at |-> clock]
              IN /\ lipsync_jobs' = lipsync_jobs \cup {row}
                 /\ clock' = clock + 1
                 /\ lsub' = [pc |-> "queue", job_id |-> id,
                             request_id |-> NULL, success |-> NULL]
         ELSE /\ lsub' = [pc |-> "idle", job_id |-> NULL,
                          request_id |-> NULL, success |-> "false"]
              /\ UNCHANGED <<lipsync_jobs, clock>>
  /\ UNCHANGED <<falQueue, wh, webhooks>>
  /\ UNCHANGED styleAndClient

\* fal.queue.submit(model, {input, webhookUrl}) with the job id in the URL
LipsyncQueueSubmit ==
  /\ lsub.pc = "queue"
  /\ \E falOk \in BOOLEAN :
       IF falOk
         THEN LET request_id == ReqIdTable[Cardinality(falQueue) + 1]
              IN /\ falQueue' = falQueue \cup
                                  {[job_id |-> lsub.job_id, request_id |-> request_id]}
                 /\ lsub' = [lsub EXCEPT !.pc = "update", !.request_id = request_id]
         ELSE /\ lsub' = [lsub EXCEPT !.pc = "idle", !.success = "false"]
              /\ UNCHANGED falQueue
  /\ UNCHANGED <<lipsync_jobs, clock, wh, webhooks>>
  /\ UNCHANGED styleAndClient

\* Update the row where id = job_id: fal_request_id and status PROCESSING.
LipsyncUpdateRecord ==
  /\ lsub.pc = "update"
  /\ lipsync_jobs' = UpdateWhereId(lipsync_jobs, lsub.job_id,
                       [fal_request_id |-> lsub.request_id,
                        status |-> "PROCESSING"])
  /\ lsub' = [lsub EXCEPT !.pc = "idle", !.success = "true"]
  /\ UNCHANGED <<falQueue, clock, wh, webhooks>>
  /\ UNCHANGED styleAndClient

\* --------------------------------------------- handle-lipsync-webhook
WebhookJobIds == {LipsyncIdTable[i] : i \in 1..MaxLipsyncJobs} \cup {"unknown"}
WebhookRequestIds == {ReqIdTable[i] : i \in 1..MaxLipsyncJobs} \cup {"xyz", NULL}
Payloads == {NULL, "{video:{url:out1}}", "{video:{url:out2}}"}
FalErrors == {NULL, "{message:invalid input}"}

\* payload?.video?.url
VideoUrl(payload) ==
  CASE payload = "{video:{url:out1}}" -> "out1"
    [] payload = "{video:{url:out2}}" -> "out2"
    [] OTHER -> NULL

\* JSON.stringify of the value the failure branch stores
Stringify(value) ==
  CASE value = "{message:invalid input}" -> "'{message:invalid input}'"
    [] value = "{video:{url:out1}}" -> "'{video:{url:out1}}'"
    [] value = "{video:{url:out2}}" -> "'{video:{url:out2}}'"

StringifyBody(body) ==
  CASE body.request_id = "abc" -> "'{request_id:abc,status:ERROR}'"
    [] body.request_id = "def" -> "'{request_id:def,status:ERROR}'"
    [] body.request_id = "ghi" -> "'{request_id:ghi,status:ERROR}'"
    [] body.request_id = "jkl" -> "'{request_id:jkl,status:ERROR}'"
    [] body.request_id = "xyz" -> "'{request_id:xyz,status:ERROR}'"
    [] OTHER -> "'{request_id:null,status:ERROR}'"

\* ErrorMessage with the payload preferred to the error.
ErrorMessagePayloadFirst(body) ==
  IF body.payload # NULL THEN Stringify(body.payload)
  ELSE IF body.error # NULL THEN Stringify(body.error)
  ELSE StringifyBody(body)

\* JSON.stringify(fal_error || payload || body)
ErrorMessage(body) ==
  IF body.error # NULL THEN Stringify(body.error)
  ELSE IF body.payload # NULL THEN Stringify(body.payload)
  ELSE StringifyBody(body)

\* RequestIdMatches without the comparison.
RequestIdAlwaysMatches(body, job) == TRUE

\* Validation: the request_id of the body against the stored fal_request_id
RequestIdMatches(body, job) == body.request_id = job.fal_request_id

\* Parse the request, fetch the job record and validate: 404 when there is
\* no such job, 400 or 403 when the request_id does not match.
WebhookReceive ==
  /\ wh.pc = "idle"
  /\ webhooks < MaxWebhooks
  /\ webhooks' = webhooks + 1
  /\ \E job_id \in WebhookJobIds, request_id \in WebhookRequestIds,
        status \in {"OK", "ERROR"}, payload \in Payloads, error \in FalErrors :
       LET body == [request_id |-> request_id, status |-> status,
                    payload |-> payload, error |-> error]
           received == [pc |-> "idle", job_id |-> job_id, body |-> body,
                        resp |-> 0, dbError |-> FALSE]
       IN IF ~HasRow(lipsync_jobs, job_id)
            THEN wh' = [received EXCEPT !.resp = 404]
          ELSE IF ~RequestIdMatches(body, RowOf(lipsync_jobs, job_id))
            THEN \E code \in {400, 403} : wh' = [received EXCEPT !.resp = code]
          ELSE wh' = [received EXCEPT !.pc = "update"]
  /\ UNCHANGED <<lipsync_jobs, falQueue, lsub, clock>>
  /\ UNCHANGED styleAndClient

\* WebhookUpdate answering 500 when the database update fails.
WebhookUpdatePropagates ==
  /\ wh.pc = "update"
  /\ \E dbOk \in BOOLEAN :
       IF dbOk
         THEN /\ lipsync_jobs' =
                   IF wh.body.status = "OK"
                     THEN UpdateWhereId(lipsync_jobs, wh.job_id,
                            [status |-> "COMPLETED",
                             output_video_url |-> VideoUrl(wh.body.payload),
                             updated_at |-> clock])
                     ELSE UpdateWhereId(lipsync_jobs, wh.job_id,
                            [status |-> "FAILED",
                             error_message |-> ErrorMessage(wh.body),
                             updated_at |-> clock])
              /\ clock' = clock + 1
              /\ wh' = [wh EXCEPT !.pc = "idle", !.resp = 200]
         ELSE /\ UNCHANGED <<lipsync_jobs, clock>>
              /\ wh' = [wh EXCEPT !.pc = "idle", !.resp = 500, !.dbError = TRUE]
  /\ UNCHANGED <<falQueue, lsub, webhooks>>
  /\ UNCHANGED styleAndClient

\* Handle the Fal AI status: update the row where id = job_id, then answer
\* 200 whether or not the database update worked.
WebhookUpdate ==
  /\ wh.pc = "update"
  /\ \E dbOk \in BOOLEAN :
       /\ IF dbOk
            THEN /\ lipsync_jobs' =
                      IF wh.body.status = "OK"
                        THEN UpdateWhereId(lipsync_jobs, wh.job_id,
                               [status |-> "COMPLETED",
                                output_video_url |-> VideoUrl(wh.body.payload),
                                updated_at |-> clock])
                        ELSE UpdateWhereId(lipsync_jobs, wh.job_id,
                               [status |-> "FAILED",
                                error_message |-> ErrorMessage(wh.body),
                                updated_at |-> clock])
                 /\ clock' = clock + 1
            ELSE UNCHANGED <<lipsync_jobs, clock>>
       /\ wh' = [wh EXCEPT !.pc = "idle", !.resp = 200, !.dbError = ~dbOk]
  /\ UNCHANGED <<falQueue, lsub, webhooks>>
  /\ UNCHANGED styleAndClient

\* ------------------------------------------------------- LipsyncPage
\* MIME types are strings, modelled as sequences of characters.
VideoPrefix == <<"v", "i", "d", "e", "o", "/">>
AudioPrefix == <<"a", "u", "d", "i", "o", "/">>

MimeTypes ==
  { <<>>,
    <<"v", "i", "d", "e", "o">>,
    VideoPrefix \o <<"m", "p", "4">>,
    AudioPrefix \o <<"m", "p", "3">>,
    <<"i", "m", "a", "g", "e", "/", "p", "n", "g">> }

FileSizes == {1, MAX_FILE_SIZE_BYTES, MAX_FILE_SIZE_BYTES + 1}

Files == {[present |-> TRUE, type |-> t, size |-> z] : t \in MimeTypes, z \in FileSizes}

\* String.prototype.startsWith
StartsWith(str, prefix) ==
  /\ Len(str) >= Len(prefix)
  /\ SubSeq(str, 1, Len(prefix)) = prefix

\* handleFileChange without the check of the MIME type.
HandleFileChangeAnyType(file, fileType) ==
  /\ lip.pc = "idle" /\ ~lip.isSubmitting /\ ~lip.isProcessing
  /\ LET accepted == file.present /\ ~(file.size > MAX_FILE_SIZE_BYTES)
         held == IF accepted THEN file ELSE NoFile
     IN lip' = IF fileType = "video" THEN [lip EXCEPT !.videoFile = held]
                                     ELSE [lip EXCEPT !.audioFile = held]
  /\ UNCHANGED <<isGenerating, poll, mounted, orphans, lastRead, history>>
  /\ UNCHANGED styleVars
  /\ UNCHANGED <<lipsync_jobs, falQueue, lsub, wh, webhooks>>

\* handleFileChange: the held file is cleared, then set to the chosen file
\* when its type has the expected prefix and its size is within the limit.
\* The inputs are disabled while isSubmitting or isProcessing.
HandleFileChange(file, fileType) ==
  /\ lip.pc = "idle" /\ ~lip.isSubmitting /\ ~lip.isProcessing
  /\ LET expectedPrefix == IF fileType = "video" THEN VideoPrefix ELSE AudioPrefix
         accepted == /\ file.present
                     /\ StartsWith(file.type, expectedPrefix)
                     /\ ~(file.size > MAX_FILE_SIZE_BYTES)
         held == IF accepted THEN file ELSE NoFile
     IN lip' = IF fileType = "video" THEN [lip EXCEPT !.videoFile = held]
                                     ELSE [lip EXCEPT !.audioFile = held]
  /\ UNCHANGED <<isGenerating, poll, mounted, orphans, lastRead, history>>
  /\ UNCHANGED styleVars
  /\ UNCHANGED <<lipsync_jobs, falQueue, lsub, wh, webhooks>>

\* handleSubmit up to the invocation of submit-lipsync-job: both files and
\* the user are required; the current job is cleared, which removes the
\* realtime channel (effect cleanup), and the two files are sent.
HandleSubmit ==
  /\ lip.pc = "idle" /\ ~lip.isSubmitting /\ ~lip.isProcessing
  /\ \E loggedIn \in BOOLEAN :
       IF ~lip.videoFile.present \/ ~lip.audioFile.present \/ ~loggedIn
         THEN UNCHANGED <<lip, lsub>>
         ELSE /\ lip' = [lip EXCEPT !.pc = "invoking", !.isSubmitting = TRUE,
                            !.errorMessage = NULL, !.outputUrl = NULL,
                            !.currentJobId = NULL, !.jobStatus = NULL,
                            !.isProcessing = FALSE, !.channel = NULL,
                            !.sent = [videoFile |-> lip.videoFile,
                                      audioFile |-> lip.audioFile]]
              /\ lsub' = IdleSubmit
  /\ UNCHANGED <<isGenerating, poll, mounted, orphans, lastRead, history>>
  /\ UNCHANGED styleVars
  /\ UNCHANGED <<lipsync_jobs, falQueue, wh, webhooks>>

\* The steps of submit-lipsync-job for the invocation of the page.
InvokedSubmit ==
  /\ lip.pc = "invoking"
  /\ lsub.success = NULL
  /\ \/ LipsyncCreateRecord
     \/ LipsyncQueueSubmit
     \/ LipsyncUpdateRecord

\* handleSubmit after the invocation returned: on success the job becomes
\* the current job, whose effect opens the realtime channel. The form data
\* is a local of handleSubmit and is gone when it returns.
HandleSubmitResponse ==
  /\ lip.pc = "invoking"
  /\ lsub.pc = "idle" /\ lsub.success # NULL
  /\ lip' = IF lsub.success = "true"
               THEN [lip EXCEPT !.pc = "idle", !.isSubmitting = FALSE,
                       !.sent = NoSubmission,
                       !.currentJobId = lsub.job_id, !.isProcessing = TRUE,
                       !.jobStatus = "PROCESSING",
                       !.videoFile = NoFile, !.audioFile = NoFile,
                       !.errorMessage = NULL,
                       !.channel = lsub.job_id, !.subscribedAt = clock]
               ELSE [lip EXCEPT !.pc = "idle", !.isSubmitting = FALSE,
                       !.sent = NoSubmission,
                       !.errorMessage = "Failed to submit job. Please try again.",
                       !.isProcessing = FALSE, !.currentJobId = NULL,
                       !.jobStatus = NULL]
  /\ UNCHANGED <<isGenerating, poll, mounted, orphans, lastRead, history>>
  /\ UNCHANGED styleVars
  /\ UNCHANGED lipsyncVars

\* handlePayload without the comparison of the row id with currentJobId.
HandlePayloadStateAnyJob(page, updatedJob) ==
  IF updatedJob.status = "COMPLETED"
    THEN [page EXCEPT !.jobStatus = updatedJob.status,
            !.outputUrl = updatedJob.output_video_url,
            !.errorMessage = NULL,
            !.isProcessing = FALSE]
  ELSE IF updatedJob.status = "FAILED"
    THEN [page EXCEPT !.jobStatus = updatedJob.status,
            !.errorMessage =
               IF updatedJob.error_message = NULL
                 THEN "An unknown error occurred during processing."
                 ELSE updatedJob.error_message,
            !.outputUrl = NULL,
            !.isProcessing = FALSE]
  ELSE [page EXCEPT !.jobStatus = updatedJob.status, !.isProcessing = TRUE]

\* handlePayload flagging a repeated COMPLETED update as an error.
HandlePayloadStateFlagsRepeat(page, updatedJob) ==
  IF updatedJob.id # page.channel THEN [page EXCEPT !.warned = TRUE]
  ELSE IF updatedJob.status = "COMPLETED"
    THEN [page EXCEPT !.jobStatus = updatedJob.status,
            !.outputUrl = updatedJob.output_video_url,
            !.errorMessage = IF page.jobStatus = "COMPLETED"
                               THEN "Job already completed" ELSE NULL,
            !.isProcessing = FALSE]
  ELSE IF updatedJob.status = "FAILED"
    THEN [page EXCEPT !.jobStatus = updatedJob.status,
            !.errorMessage =
               IF updatedJob.error_message = NULL
                 THEN "An unknown error occurred during processing."
                 ELSE updatedJob.error_message,
            !.outputUrl = NULL,
            !.isProcessing = FALSE]
  ELSE [page EXCEPT !.jobStatus = updatedJob.status, !.isProcessing = TRUE]

\* handlePayload: the page state after an update of the subscribed job; an
\* update of another row only logs a warning. The currentJobId of the
\* handler's closure is the job its channel was opened for.
HandlePayloadState(page, updatedJob) ==
  IF updatedJob.id # page.channel THEN [page EXCEPT !.warned = TRUE]
  ELSE IF updatedJob.status = "COMPLETED"
    THEN [page EXCEPT !.jobStatus = updatedJob.status,
            !.outputUrl = updatedJob.output_video_url,
            !.errorMessage = NULL,
            !.isProcessing = FALSE]
  ELSE IF updatedJob.status = "FAILED"
    THEN [page EXCEPT !.jobStatus = updatedJob.status,
            !.errorMessage =
               IF updatedJob.error_message = NULL
                 THEN "An unknown error occurred during processing."
                 ELSE updatedJob.error_message,
            !.outputUrl = NULL,
            !.isProcessing = FALSE]
  ELSE [page EXCEPT !.jobStatus = updatedJob.status, !.isProcessing = TRUE]

\* The realtime channel delivers an UPDATE of the subscribed row made since
\* the subscription (the same update may be delivered again).
HandlePayload ==
  /\ lip.channel # NULL
  /\ HasRow(lipsync_jobs, lip.channel)
  /\ RowOf(lipsync_jobs, lip.channel).updated_at >= lip.subscribedAt
  /\ lip' = HandlePayloadState(lip, RowOf(lipsync_jobs, lip.channel))
  /\ UNCHANGED <<isGenerating, poll, mounted, orphans, lastRead, history>>
  /\ UNCHANGED styleVars
  /\ UNCHANGED lipsyncVars

\* Updates of a row that is not the subscribed one, as payload.new.
StrayUpdates ==
  {[id |-> "l0", status |-> s,
    output_video_url |-> IF s = "COMPLETED" THEN "out2" ELSE NULL,
    error_message |-> IF s = "FAILED" THEN "{message:invalid input}" ELSE NULL] :
     s \in {"PROCESSING", "COMPLETED", "FAILED"}}

\* The handler of the open channel is called with an update of another row.
StrayPayload ==
  /\ lip.channel # NULL
  /\ \E updatedJob \in StrayUpdates : lip' = HandlePayloadState(lip, updatedJob)
  /\ UNCHANGED <<isGenerating, poll, mounted, orphans, lastRead, history>>
  /\ UNCHANGED styleVars
  /\ UNCHANGED lipsyncVars

\* The subscribe callback with a status other than SUBSCRIBED.
SubscriptionError ==
  /\ lip.channel # NULL
  /\ lip' = [lip EXCEPT
               !.errorMessage = "Could not connect for live updates.",
               !.isProcessing = FALSE]
  /\ UNCHANGED <<isGenerating, poll, mounted, orphans, lastRead, history>>
  /\ UNCHANGED styleVars
  /\ UNCHANGED lipsyncVars

\* resetInterface, behind the buttons of the error and the success panel;
\* clearing the current job removes the realtime channel (effect cleanup).
ResetInterface ==
  /\ ~lip.isProcessing
  /\ lip.errorMessage # NULL \/ lip.outputUrl # NULL
  /\ lip' = [lip EXCEPT !.videoFile = NoFile, !.audioFile = NoFile,
               !.isSubmitting = FALSE, !.isProcessing = FALSE,
               !.currentJobId = NULL, !.jobStatus = NULL,
               !.outputUrl = NULL, !.errorMessage = NULL, !.channel = NULL]
  /\ UNCHANGED <<isGenerating, poll, mounted, orphans, lastRead, history>>
  /\ UNCHANGED styleVars
  /\ UNCHANGED lipsyncVars

\* ---------------------------------------------- job reads of a session
\* The SELECT policy of lipsync_jobs without its USING condition.
LipsyncSelectPolicyAll(authUid, row) == TRUE

\* CREATE POLICY "Allow users to select own jobs" ON public.lipsync_jobs
\* FOR SELECT USING (auth.uid() = user_id)
LipsyncSelectPolicy(authUid, row) == authUid = row.user_id

\* Ownership isolation of style_jobs: a read by an identity other than the
\* owner returns nothing.
StyleSelectPolicy(authUid, row) == authUid = row.user_id

\* fetchHistory: select * from lipsync_jobs where user_id = user.id, run
\* with the session of authUid (the tables here hold fewer than 20 rows).
FetchHistoryRows(authUid, userId) ==
  {r \in lipsync_jobs : r.user_id = userId /\ LipsyncSelectPolicy(authUid, r)}

\* checkStatus: select * from style_jobs where id = jobId, run with the
\* session of authUid.
StyleJobRows(authUid, jobId) ==
  {r \in style_jobs : r.id = jobId /\ StyleSelectPolicy(authUid, r)}

\* fetchHistory of a page whose user is userId while the browser session
\* is that of authUid (the two differ across a sign-out and sign-in).
FetchHistory ==
  /\ \E authUid \in Users, userId \in Users :
       lastRead' = [by |-> authUid, table |-> "lipsync_jobs", filter |-> userId,
                    rows |-> FetchHistoryRows(authUid, userId)]
  /\ UNCHANGED <<isGenerating, poll, mounted, orphans, lip, history>>
  /\ UNCHANGED styleVars
  /\ UNCHANGED lipsyncVars

\* The status query of checkStatus for a job id, under any session.
StatusQuery ==
  /\ \E authUid \in Users, job \in style_jobs :
       lastRead' = [by |-> authUid, table |-> "style_jobs", filter |-> job.id,
                    rows |-> StyleJobRows(authUid, job.id)]
  /\ UNCHANGED <<isGenerating, poll, mounted, orphans, lip, history>>
  /\ UNCHANGED styleVars
  /\ UNCHANGED lipsyncVars

\* ------------------------------------------------ HistoryInfinite (client)
RECURSIVE NewestFirst(_)
\* .order('created_at', { ascending: false })
NewestFirst(rows) ==
  IF rows = {} THEN <<>>
  ELSE LET newest == CHOOSE r \in rows : \A q \in rows : r.created_at >= q.created_at
       IN <<newest>> \o NewestFirst(rows \ {newest})

\* The query of loadImages: the PAGE_SIZE newest rows, below the cursor
\* when there is one.
HistoryPage(table, cursor) ==
  LET rows == {g \in table : cursor = NoCursor \/ g.created_at < cursor}
      sorted == NewestFirst(rows)
  IN SubSeq(sorted, 1, Min(PAGE_SIZE, Len(sorted)))

\* The part of loadImages that runs before its first await, on the state h
\* of the render that called it: the guard returns while loading is set
\* (and the finally block clears loading), otherwise the query is sent.
LoadImages(h) ==
  IF ~h.hasMore \/ h.loading
    THEN [h EXCEPT !.loading = FALSE]
    ELSE [h EXCEPT !.loading = TRUE, !.pc = "querying", !.query = h.cursor,
                   !.queries = h.queries + 1]

\* The component mounts with its initial state and the initial-load effect
\* calls loadImages.
HistoryMount ==
  /\ history.pc = "unmounted"
  /\ history' = LoadImages([NoHistory EXCEPT !.pc = "idle"])
  /\ UNCHANGED <<isGenerating, poll, mounted, orphans, lip, lastRead>>
  /\ UNCHANGED styleVars
  /\ UNCHANGED lipsyncVars

\* handleScroll near the bottom of the container.
HandleScroll ==
  /\ history.pc = "idle"
  /\ history.queries < MaxLoads
  /\ ~(~history.hasMore \/ history.loading)
  /\ history' = LoadImages(history)
  /\ UNCHANGED <<isGenerating, poll, mounted, orphans, lip, lastRead>>
  /\ UNCHANGED styleVars
  /\ UNCHANGED lipsyncVars

\* loadImages after the query has answered: the error branch, the empty
\* page, or the page appended to items without the rows whose signing
\* threw; the finally block clears loading.
LoadImagesAnswer ==
  /\ history.pc = "querying"
  /\ \E outcome \in {"data", "error"} :
       LET data == HistoryPage(generated_images, history.query)
       IN IF outcome = "error"
            THEN history' = [history EXCEPT !.pc = "idle", !.loading = FALSE,
                                            !.error = "Error loading images"]
          ELSE IF Len(data) = 0
            THEN history' = [history EXCEPT !.pc = "idle", !.loading = FALSE,
                                            !.hasMore = FALSE, !.page = data]
          ELSE \E thrown \in SUBSET (1..Len(data)) :
                 LET valid == SelectSeq([i \in 1..Len(data) |->
                                           IF i \in thrown THEN NoJob
                                           ELSE [id |-> data[i].path]],
                                        LAMBDA item : item.id # NULL)
                 IN history' = [history EXCEPT
                                  !.pc = "idle", !.loading = FALSE,
                                  !.items = history.items \o valid,
                                  !.cursor = data[Len(data)].created_at,
                                  !.hasMore = (Len(data) = PAGE_SIZE),
                                  !.page = data]
  /\ UNCHANGED <<isGenerating, poll, mounted, orphans, lip, lastRead>>
  /\ UNCHANGED styleVars
  /\ UNCHANGED lipsyncVars

\* A request that passes every check of submit-style-job.
SubmitAccepted ==
  /\ Cardinality(style_jobs) < MaxJobs
  /\ \E insp \in InspCounts, triggerOk \in BOOLEAN :
       SubmitStyleJobHandler("u1", TRUE, 5, insp, "ok", TRUE, triggerOk)
  /\ UNCHANGED <<generated_images, storage, inv, openaiCalls>>
  /\ UNCHANGED clientVars
  /\ UNCHANGED lipsyncVars

Next ==
  \/ SubmitAccepted
  \/ \E k \in Invocations : Worker(k)

Spec == Init /\ [][Next]_vars

\* The page with its polling loop, the worker invoked once.
NextPoll ==
  \/ HandleGenerate
  \/ Worker(1)
  \/ \E outcome \in PollOutcomes : PollIteration(outcome)
  \/ Unmount
  \/ Mount

SpecPoll == Init /\ [][NextPoll]_vars

\* Every request submit-style-job rejects, and the accepted requests of one
\* user for one number of variations.
SubmitRequest ==
  /\ SubmitStyleJob
  /\ \A r \in style_jobs' : r.user_id = "u1" /\ r.n = 4

\* The requests submit-style-job can receive, the worker invoked once.
NextSubmit ==
  \/ SubmitRequest
  \/ Worker(1)

SpecSubmit == Init /\ [][NextSubmit]_vars

\* An accepted request that carries an inspiration image.
SubmitWithInspiration ==
  /\ SubmitAccepted
  /\ \A r \in style_jobs' : r.insp_paths = 1

\* WorkerInTurn without the wait: an invocation may start at any time.
WorkerAtAnyTime(k) == Worker(k)

\* An invocation of process-style-jobs that starts only when no other
\* invocation is in progress.
WorkerInTurn(k) ==
  /\ Worker(k)
  /\ inv[k].pc = "idle" => \A j \in Invocations : inv[j].pc \in {"idle", "done"}

\* Accepted submissions and invocations that do not overlap in time.
NextSerial ==
  \/ SubmitWithInspiration
  \/ \E k \in Invocations : WorkerInTurn(k)

SpecSerial == Init /\ [][NextSerial]_vars

\* Accepted submissions and a scheduler that invokes process-style-jobs
\* again after every response.
NextScheduler ==
  \/ SubmitWithInspiration
  \/ Worker(1)
  \/ NextInvocation(1)

\* The scheduler keeps invoking, every invocation runs to its response, and
\* the read of the queue does not fail forever.
SchedulerFairness ==
  /\ WF_vars(Worker(1))
  /\ WF_vars(NextInvocation(1))
  /\ SF_vars(SelectJob(1) /\ inv'[1].status # 500)

SpecScheduler == Init /\ [][NextScheduler]_vars /\ SchedulerFairness

\* The request bodies for the number of variations: without n, and with an
\* integer n from below the lower limit to above the limit of the worker.
CountBodies ==
  {[hasN |-> FALSE, n |-> 0]} \cup {[hasN |-> TRUE, n |-> n] : n \in -1..11}

\* An accepted request of the page, for every number of variations.
SubmitCount ==
  /\ Cardinality(style_jobs) < MaxJobs
  /\ \E body \in CountBodies :
       SubmitStyleJobHandler("u1", TRUE, BodyN(body), 1, "ok", TRUE, TRUE)
  /\ UNCHANGED <<generated_images, storage, inv, openaiCalls>>
  /\ UNCHANGED clientVars
  /\ UNCHANGED lipsyncVars

\* Requests for every number of variations, the worker invoked once.
NextCount ==
  \/ SubmitCount
  \/ Worker(1)

SpecCount == Init /\ [][NextCount]_vars

\* The history page next to the function that fills generated_images.
NextHistory ==
  \/ SubmitWithInspiration
  \/ Worker(1)
  \/ HistoryMount
  \/ HandleScroll
  \/ LoadImagesAnswer

SpecHistory == Init /\ [][NextHistory]_vars

\* The lipsync job: its submission and the webhook receiver.
NextLipsync ==
  \/ LipsyncCreateRecord
  \/ LipsyncQueueSubmit
  \/ LipsyncUpdateRecord
  \/ WebhookReceive
  \/ WebhookUpdate

SpecLipsync == Init /\ [][NextLipsync]_vars

\* A notification Fal AI sends for a request of its queue: the job id of the
\* webhook URL and the request_id it returned, with a video on success and
\* an error otherwise.
FalNotification ==
  /\ WebhookReceive
  /\ \E q \in falQueue : /\ wh'.job_id = q.job_id
                         /\ wh'.body.request_id = q.request_id
  /\ IF wh'.body.status = "OK"
       THEN wh'.body.payload # NULL /\ wh'.body.error = NULL
       ELSE wh'.body.payload = NULL /\ wh'.body.error # NULL

\* The job tables filled by the two submit functions, and the reads.
NextReads ==
  \/ SubmitAccepted
  \/ LipsyncCreateRecord
  \/ LipsyncQueueSubmit
  \/ LipsyncUpdateRecord
  \/ FetchHistory
  \/ StatusQuery

SpecReads == Init /\ [][NextReads]_vars

\* LipsyncPage with the function it invokes and the webhook receiver.
NextLipsyncPage ==
  \/ \E file \in Files \cup {NoFile}, fileType \in {"video", "audio"} :
       HandleFileChange(file, fileType)
  \/ HandleSubmit
  \/ InvokedSubmit
  \/ HandleSubmitResponse
  \/ FalNotification
  \/ WebhookUpdate
  \/ HandlePayload
  \/ StrayPayload
  \/ SubscriptionError
  \/ ResetInterface

SpecLipsyncPage == Init /\ [][NextLipsyncPage]_vars

\* ===================================================================
\* Claims
\* ===================================================================
Terminal == {"COMPLETED", "FAILED"}

\* The invocation has written PROCESSING for the job it read.
Claimed(k) == inv[k].job.id # NULL /\ inv[k].pc \notin {"idle", "select", "mark"}

ClaimersOf(id) == {k \in Invocations : Claimed(k) /\ inv[k].job.id = id}

\* C1: once a style_jobs row is COMPLETED or FAILED, no later write of a
\* process-style-jobs invocation changes its status, exec_id or
\* error_message, whatever the interleaving of the invocations.
C1_TerminalIsFinal ==
  [][\A r \in style_jobs :
       r.status \in Terminal =>
         \E q \in style_jobs' : /\ q.id = r.id
                                /\ q.status = r.status
                                /\ q.exec_id = r.exec_id
                                /\ q.error_message = r.error_message]_vars

\* C2: for every style job at most one invocation claims it, and the
\* external image API receives at most one request for it.
C2_SingleClaimSingleRequest ==
  \A r \in style_jobs :
    /\ Cardinality(ClaimersOf(r.id)) <= 1
    /\ CallsFor(r.id) <= 1

\* C3: a pollJobStatus loop that observes no terminal status makes exactly
\* maxAttempts (60) calls of checkStatus and then stops, whatever the polls
\* return: never a 61st call, and a stop without a terminal row is at call 60.
C3_StopsAfterMaxAttempts ==
  /\ poll.attempt <= maxAttempts
  /\ (poll.pc = "stopped" /\ poll.result \in {NULL, "Status Check Timeout"})
       => poll.attempt = maxAttempts

\* C4: pollJobStatus never writes to the job store: every step of the loop,
\* the one that exhausts the attempts included, leaves style_jobs (and the
\* image table and the bucket) unchanged; the job is not set to FAILED.
C4_PollNeverWrites ==
  [][(poll.pc = "polling" /\ poll' # poll) =>
       /\ style_jobs' = style_jobs
       /\ generated_images' = generated_images
       /\ storage' = storage]_vars

\* C4 witness: the loop has given up after at least maxAttempts calls and the
\* polled row is still there in a non-terminal status.
C4_Witness ==
  /\ poll.pc = "stopped"
  /\ poll.result = "Status Check Timeout"
  /\ poll.attempt >= maxAttempts
  /\ RowOf(style_jobs, poll.jobId).status \in {"QUEUED", "PROCESSING"}

\* C5: when a step of process-style-jobs fails after the job was claimed,
\* the invocation ends with the job's row FAILED and error_message equal to
\* the failure's message.
C5_FailureMarksFailed ==
  \A k \in Invocations :
    (inv[k].pc = "done" /\ inv[k].job.id # NULL /\ inv[k].status = 500) =>
      /\ RowOf(style_jobs, inv[k].job.id).status = "FAILED"
      /\ RowOf(style_jobs, inv[k].job.id).error_message = inv[k].err

\* C6: a notification whose request_id differs from the fal_request_id
\* stored on the addressed job is rejected (400 or 403) and no field of any
\* lipsync_jobs row changes; the handler ends there.
C6_MismatchRejected ==
  [][(/\ wh.pc = "idle" /\ wh' # wh
      /\ HasRow(lipsync_jobs, wh'.job_id)
      /\ wh'.body.request_id # RowOf(lipsync_jobs, wh'.job_id).fal_request_id)
     => /\ wh'.resp \in {400, 403}
        /\ wh'.pc = "idle"
        /\ lipsync_jobs' = lipsync_jobs]_vars

\* C6 witness: the job is in PROCESSING with stored reference "abc", a
\* notification carrying "xyz" was answered with a rejection.
C6_Witness ==
  /\ wh.pc = "idle"
  /\ wh.resp \in {400, 403}
  /\ wh.body.request_id = "xyz"
  /\ \E r \in lipsync_jobs : /\ r.id = wh.job_id
                             /\ r.fal_request_id = "abc"
                             /\ r.status = "PROCESSING"

\* C7: for a lipsync job already COMPLETED or FAILED (submitted, so with a
\* stored fal_request_id), a further notification with the matching
\* request_id leaves status, output_video_url and error_message unchanged.
C7_TerminalWebhookIdempotent ==
  [][(wh.pc = "update" /\ wh'.pc = "idle") =>
       \A r \in lipsync_jobs :
         (r.id = wh.job_id /\ r.status \in Terminal /\ r.fal_request_id # NULL) =>
           \E q \in lipsync_jobs' :
             /\ q.id = r.id
             /\ q.status = r.status
             /\ q.output_video_url = r.output_video_url
             /\ q.error_message = r.error_message]_vars

\* C8 as stated: every notification is answered with 200 (0: no answer yet).
C8_Always200 == wh.resp \in {0, 200}

\* C8 amended: a notification for an existing job with the stored request_id
\* is answered 200, also when the database update fails; one for an unknown
\* job id is answered 404, one whose request_id does not match 400 or 403.
C8_AnswerByValidation ==
  [][/\ (wh.pc = "update" /\ wh'.pc = "idle") => wh'.resp = 200
     /\ (wh.pc = "idle" /\ wh' # wh) =>
          IF ~HasRow(lipsync_jobs, wh'.job_id)
            THEN wh'.pc = "idle" /\ wh'.resp = 404
          ELSE IF wh'.body.request_id # RowOf(lipsync_jobs, wh'.job_id).fal_request_id
            THEN wh'.pc = "idle" /\ wh'.resp \in {400, 403}
          ELSE wh'.pc = "update"]_vars

\* C8 witness: a notification was answered 200 although its update failed.
C8_Witness == wh.pc = "idle" /\ wh.resp = 200 /\ wh.dbError

\* C9: for a job in PROCESSING with a stored fal_request_id, the applied
\* update of a matching notification sets COMPLETED and the URL of the
\* payload when the status is OK, and otherwise FAILED and the serialized
\* error, or the serialized payload when there is no error, or the serialized
\* body when there is neither.
C9_WebhookOutcome ==
  [][(/\ wh.pc = "update" /\ wh'.pc = "idle" /\ ~wh'.dbError
      /\ \E r \in lipsync_jobs : /\ r.id = wh.job_id
                                 /\ r.status = "PROCESSING"
                                 /\ r.fal_request_id # NULL)
     => LET q == RowOf(lipsync_jobs', wh.job_id)
            b == wh.body
        IN IF b.status = "OK"
             THEN /\ q.status = "COMPLETED"
                  /\ b.payload = "{video:{url:out1}}" => q.output_video_url = "out1"
                  /\ b.payload = "{video:{url:out2}}" => q.output_video_url = "out2"
             ELSE /\ q.status = "FAILED"
                  /\ b.error = "{message:invalid input}"
                       => q.error_message = "'{message:invalid input}'"
                  /\ (b.error = NULL /\ b.payload = "{video:{url:out1}}")
                       => q.error_message = "'{video:{url:out1}}'"
                  /\ (b.error = NULL /\ b.payload = NULL /\ b.request_id = "abc")
                       => q.error_message = "'{request_id:abc,status:ERROR}'"]_vars

\* C9 witness: an ERROR notification without error and payload has been
\* applied to the job: FAILED with the serialized body.
C9_Witness ==
  /\ wh.pc = "idle" /\ wh.resp = 200 /\ ~wh.dbError
  /\ wh.body.status = "ERROR" /\ wh.body.error = NULL /\ wh.body.payload = NULL
  /\ \E r \in lipsync_jobs : /\ r.id = wh.job_id
                             /\ r.status = "FAILED"
                             /\ r.fal_request_id = "abc"
                             /\ r.error_message = "'{request_id:abc,status:ERROR}'"

\* C10: in every reachable state of the job store the output reference of a
\* job (exec_id, output_video_url) is non-null exactly when it is COMPLETED.
C10_OutputIffCompleted ==
  /\ \A r \in style_jobs : (r.exec_id # NULL) <=> (r.status = "COMPLETED")
  /\ \A r \in lipsync_jobs : (r.output_video_url # NULL) <=> (r.status = "COMPLETED")

\* C11: in every reachable state of the job store the error_message of a job
\* is non-null exactly when its status is FAILED.
C11_ErrorIffFailed ==
  /\ \A r \in style_jobs : (r.error_message # NULL) <=> (r.status = "FAILED")
  /\ \A r \in lipsync_jobs : (r.error_message # NULL) <=> (r.status = "FAILED")

\* C12: a submit-style-job request that is rejected (answered 500) inserts
\* no style_jobs row and triggers no worker invocation.
C12_RejectedSubmitNoRow ==
  [][(submitResp'.status = 500 /\ inv' = inv) =>
       /\ style_jobs' = style_jobs
       /\ pendingTriggers' = pendingTriggers]_vars

\* C12 witness: a request was rejected for a failed inspiration upload after
\* an earlier one was accepted; the table holds the earlier job only.
C12_Witness ==
  /\ submitResp.status = 500
  /\ submitResp.error = "Failed to upload inspiration image"
  /\ Cardinality(style_jobs) = 1

\* C15: the step that inserts the QUEUED row answers 200 with the id of that
\* row, whether or not the worker trigger goes through; no step of the
\* worker changes the response, and no step removes a row.
C15_SubmitNeverWaits ==
  [][LET ids == {r.id : r \in style_jobs}
         newIds == {r.id : r \in style_jobs'} \ ids
     IN /\ \A id \in newIds :
             /\ RowOf(style_jobs', id).status = "QUEUED"
             /\ submitResp' = [status |-> 200, job_id |-> id, error |-> NULL]
        /\ inv' # inv => submitResp' = submitResp
        /\ ids \subseteq {r.id : r \in style_jobs'}]_vars

\* C15 witness: the request was answered 200 with the job id, its trigger
\* did not reach the worker, and a later invocation failed on that job.
C15_Witness ==
  /\ submitResp.status = 200
  /\ pendingTriggers = 0
  /\ inv[1].pc = "done" /\ inv[1].status = 500
  /\ inv[1].job.id = submitResp.job_id
  /\ HasRow(style_jobs, submitResp.job_id)

\* C20: for every completed style job the generated_images rows carrying
\* its exec_id are as many as the result images uploaded for it, at least
\* one, also when an insert into generated_images fails.
C20_OneRowPerUpload ==
  \A r \in style_jobs :
    (r.status = "COMPLETED" /\ r.exec_id # NULL) =>
      LET rows == {g \in generated_images : g.exec_id = r.exec_id}
          uploads == {path \in storage : path[2] = r.exec_id}
      IN Cardinality(rows) = Cardinality(uploads) /\ Cardinality(rows) >= 1

\* The job ids for which a pollJobStatus loop is running.
RunningLoops ==
  orphans \o (IF poll.pc = "polling" THEN <<poll.jobId>> ELSE <<>>)

\* C18: once the page is unmounted, the pollJobStatus loop it started issues
\* no further status query (checkStatus is not called again).
C18_UnmountCancelsPolling ==
  [][~mounted => poll'.attempt = poll.attempt]_vars

\* C19: at every moment no two running pollJobStatus loops poll the same
\* job id; a loop starts only while isGenerating is false, for a job id no
\* loop has polled before, and isGenerating is true while the loop of the
\* mounted page runs.
C19_OneLoopPerJob ==
  /\ [](\A i, j \in 1..Len(RunningLoops) :
           i # j => RunningLoops[i] # RunningLoops[j])
  /\ []((mounted /\ poll.pc = "polling") => isGenerating)
  /\ [][(poll' # poll /\ poll'.pc = "polling" /\ poll'.attempt = 0) =>
          /\ ~isGenerating
          /\ \A i \in 1..Len(orphans) : orphans[i] # poll'.jobId
          /\ poll'.jobId # poll.jobId]_vars

\* C19 witness: the loop of a former page instance still runs while the
\* loop the new instance started polls another job.
C19_Witness ==
  /\ Len(orphans) = 1
  /\ poll.pc = "polling"
  /\ poll.attempt > 0
  /\ isGenerating

\* The file is absent, or its type has the prefix and its size is at most
\* 500 MiB.
NullOrValid(file, prefix) ==
  file.present =>
    /\ StartsWith(file.type, prefix)
    /\ file.size <= 500 * 1024 * 1024

\* C13: after any sequence of file selections the held video file is null
\* or a video/ file of at most 500*1024*1024 bytes, likewise the audio file
\* with audio/; submit-lipsync-job is invoked only with two held files, so
\* what is sent is never of a wrong type or oversized.
C13_OnlyValidFilesSubmitted ==
  /\ NullOrValid(lip.videoFile, VideoPrefix)
  /\ NullOrValid(lip.audioFile, AudioPrefix)
  /\ (lip.pc = "invoking" \/ lip.sent # NoSubmission) =>
       /\ lip.sent.videoFile.present /\ lip.sent.audioFile.present
       /\ NullOrValid(lip.sent.videoFile, VideoPrefix)
       /\ NullOrValid(lip.sent.audioFile, AudioPrefix)

\* C13 witness: submit-lipsync-job is running with a video file of exactly
\* the maximum size and an audio file.
C13_Witness ==
  /\ lip.pc = "invoking"
  /\ lsub.pc = "queue"
  /\ lip.sent.videoFile.size = MAX_FILE_SIZE_BYTES
  /\ lip.sent.audioFile.present

C17_TerminalPayloadIdempotent ==
  \A r \in lipsync_jobs :
    (lip.channel # NULL /\ r.id = lip.channel /\ r.status \in Terminal) =>
      LET once == HandlePayloadState(lip, r)
          twice == HandlePayloadState(once, r)
      IN /\ twice.jobStatus = once.jobStatus
         /\ twice.outputUrl = once.outputUrl
         /\ twice.errorMessage = once.errorMessage
         /\ twice.isProcessing = once.isProcessing

\* C17 witness: a COMPLETED update with its URL has been handled and the
\* channel is still open for the same update to arrive again.
C17_Witness ==
  /\ lip.channel # NULL
  /\ lip.jobStatus = "COMPLETED"
  /\ lip.outputUrl = "out1"
  /\ ~lip.isProcessing
  /\ RowOf(lipsync_jobs, lip.channel).status = "COMPLETED"

C21_SuccessEnvelope ==
  /\ submitResp.status = 500 =>
       LET b == SubmitResponseBody(submitResp)
       IN DOMAIN b = {"success", "error"} /\ b.success = FALSE
  /\ submitResp.status = 200 =>
       LET b == SubmitResponseBody(submitResp)
       IN DOMAIN b = {"success", "jobId"} /\ b.success = TRUE
  /\ \A k \in Invocations :
       (inv[k].pc = "done" /\ inv[k].status = 500) =>
         LET b == WorkerResponseBody(inv[k])
         IN DOMAIN b = {"success", "error"} /\ b.success = FALSE

\* C21 (amended): every error response of the two functions is a 500 whose
\* body is {error: message} with a message, and every success response of
\* submit-style-job is {job_id, message, status: "QUEUED"} with the id of a
\* row of style_jobs.
C21_ErrorBodyAndJobId ==
  /\ submitResp.status = 500 =>
       LET b == SubmitResponseBody(submitResp)
       IN DOMAIN b = {"error"} /\ b.error # NULL
  /\ submitResp.status = 200 =>
       LET b == SubmitResponseBody(submitResp)
       IN /\ DOMAIN b = {"job_id", "message", "status"}
          /\ HasRow(style_jobs, b.job_id)
          /\ b.status = "QUEUED"
  /\ submitResp.status \in {0, 200, 500}
  /\ \A k \in Invocations :
       inv[k].pc = "done" =>
         /\ inv[k].status \in {200, 500}
         /\ inv[k].status = 500 =>
              LET b == WorkerResponseBody(inv[k])
              IN DOMAIN b = {"error"} /\ b.error # NULL

\* C21 witness: a request was rejected after an earlier one was accepted,
\* and the invocation that took the accepted job answered with an error.
C21_Witness ==
  /\ submitResp.status = 500
  /\ inv[1].pc = "done"
  /\ inv[1].status = 500
  /\ inv[1].job.id # NULL

\* The columns of a style_jobs row that submit-style-job fills from the
\* request.
JobInputs(r) == <<r.id, r.user_id, r.prompt, r.insp_paths, r.n, r.size>>

\* C22: no step changes the id, user_id, prompt, insp_paths, n or size of an
\* existing style_jobs row, and a step of process-style-jobs neither adds
\* nor removes a row: the fields keep the values submit-style-job inserted.
C22_InputsImmutable ==
  [][/\ \A r \in style_jobs :
          \E q \in style_jobs' : JobInputs(q) = JobInputs(r)
     /\ inv' # inv =>
          {JobInputs(q) : q \in style_jobs'} = {JobInputs(r) : r \in style_jobs}]_vars

\* C22 witness: a job submitted with an inspiration image went through both
\* writes of an invocation and is COMPLETED.
C22_Witness ==
  \E r \in style_jobs :
    /\ r.status = "COMPLETED"
    /\ r.exec_id # NULL
    /\ r.insp_paths = 1
    /\ r.updated_at > r.created_at + 1

IsQueued(id) == \E r \in style_jobs : r.id = id /\ r.status = "QUEUED"

HasLeftQueued(id) == \E r \in style_jobs : r.id = id /\ r.status # "QUEUED"

C24_ClaimsOldestQueued ==
  [][\A k \in Invocations :
       LET w == inv[k]
           x == inv'[k]
           queued == {r \in style_jobs : r.status = "QUEUED"}
       IN /\ (w.pc = "select" /\ x.pc = "mark") =>
               /\ x.job \in queued
               /\ \A q \in queued : x.job.created_at <= q.created_at
          /\ (w.pc = "select" /\ x # w /\ queued = {}) =>
               /\ x.pc = "done" /\ x.job.id = NULL
               /\ \/ /\ x.status = 200
                     /\ WorkerResponseBody(x) = [message |-> "No jobs to process"]
                  \/ x.status = 500 /\ x.err = "Job fetch error"
          /\ (w.job.id # NULL /\ x.pc # "idle") => x.job = w.job
          /\ (x # w /\ x.job.id # NULL) =>
               \A r \in style_jobs : r.id # x.job.id => r \in style_jobs'
          /\ (x # w /\ x.job.id = NULL) =>
               /\ style_jobs' = style_jobs
               /\ generated_images' = generated_images
               /\ storage' = storage]_vars

\* C24 witness: the invocation took the older of two jobs and has finished;
\* the newer one, inserted before the last write of the invocation, is
\* still QUEUED.
C24_Witness ==
  /\ inv[1].pc = "done"
  /\ inv[1].job.id = JobIdTable[1]
  /\ \E r \in style_jobs :
       /\ r.id = JobIdTable[2]
       /\ r.status = "QUEUED"
       /\ r.created_at < RowOf(style_jobs, JobIdTable[1]).updated_at

\* min(4, max(1, n)), written out.
Between1And4(n) == IF n < 1 THEN 1 ELSE IF n > 4 THEN 4 ELSE n

\* C25: for every integer n of a request the n stored on the job is
\* min(4, max(1, n)), and 1 for a request without n; every stored n is such
\* a value, and the n of the request an invocation has sent to the image
\* API equals the n stored on its job, between 1 and 4.
C25_VariationsClamped ==
  /\ \A body \in CountBodies :
       ClampN(BodyN(body)) = IF body.hasN THEN Between1And4(body.n) ELSE 1
  /\ \A r \in style_jobs :
       /\ r.n \in 1..4
       /\ \E body \in CountBodies : r.n = ClampN(BodyN(body))
  /\ \A k \in Invocations :
       CallsFor(inv[k].job.id) > 0 =>
         /\ inv[k].numVariations = RowOf(style_jobs, inv[k].job.id).n
         /\ inv[k].numVariations \in 1..4

\* C25 witness: jobs with stored n 4 and 1 exist (from requests above the
\* limit and without n or below 1), and the invocation has requested 4
\* variations for the first.
C25_Witness ==
  /\ \E r \in style_jobs : r.id = JobIdTable[1] /\ r.n = 4
  /\ \E r \in style_jobs : r.id = JobIdTable[2] /\ r.n = 1
  /\ inv[1].job.id = JobIdTable[1]
  /\ inv[1].numVariations = 4
  /\ inv[1].pc = "done"

\* C26: once HistoryInfinite is mounted, the loadImages call of its
\* initial-load effect has sent the query of the first page (no cursor, at
\* most PAGE_SIZE rows, newest first), and loading is cleared when no
\* loadImages call is running.
C26_InitialLoadQueriesFirstPage ==
  /\ history.pc # "unmounted" => history.queries >= 1
  /\ (history.pc = "querying" /\ history.queries = 1) => history.query = NoCursor
  /\ Len(history.page) <= PAGE_SIZE
  /\ \A i, j \in 1..Len(history.page) :
       i < j => history.page[i].created_at > history.page[j].created_at
  /\ history.pc = "idle" => ~history.loading

StatusEdges ==
  {<<"QUEUED", "PROCESSING">>, <<"PROCESSING", "COMPLETED">>,
   <<"PROCESSING", "FAILED">>}

C29_NoImagesOfFailedRuns ==
  (\A k \in Invocations : inv[k].pc \in {"idle", "done"}) =>
    \A g \in generated_images :
      \E r \in style_jobs : r.status = "COMPLETED" /\ r.exec_id = g.exec_id

\* C30: a notification for a request of the Fal AI queue, carrying the job
\* id of its webhook URL and the request_id the queue returned, is not
\* answered with the mismatch rejection (400 or 403), wherever it falls
\* between the steps of submit-lipsync-job; and the write of fal_request_id
\* and PROCESSING that ends submit-lipsync-job changes no terminal status.
C30_GenuineWebhookAccepted ==
  [][/\ (/\ wh.pc = "idle" /\ wh' # wh
         /\ \E q \in falQueue : /\ q.job_id = wh'.job_id
                                /\ q.request_id = wh'.body.request_id)
        => wh'.resp \notin {400, 403}
     /\ (lsub.pc = "update" /\ lsub'.pc # "update") =>
          \A r \in lipsync_jobs :
            r.status \in Terminal => RowOf(lipsync_jobs', r.id).status = r.status]_vars

====
